---- MODULE Spec2Model ----
(***************************************************************************)
(* Model of alertharvest_server.py: seven MCP tools that validate their    *)
(* string arguments, issue one HTTP request to the AlertHarvest backend    *)
(* and translate the response into a result string.                        *)
(*                                                                         *)
(* Argument strings are sequences of one-character strings, so that        *)
(* str.strip, str.split and int() are computed and not assumed.  A result  *)
(* string is the record of its f-string: the leading marker, the literal   *)
(* text and the tuple of interpolated values.                              *)
(***************************************************************************)
EXTENDS Integers, Sequences, FiniteSets, TLC

\* ------------------------------------------------------------------ bounds
MaxLen == 3
MaxCalls == 2
MaxClock == 1

Calls == 1..MaxCalls

VARIABLES
    ALERTHARVEST_URL,  \* module-level configuration value
    now,               \* the wall clock datetime.now() reads
    pc,                \* per call: "idle", "waiting" (suspended in await), "done", "raised"
    op,                \* per call: the tool invoked
    args,              \* per call: the tuple of argument strings
    frame,             \* per call: locals that live across the await
    sent,              \* per call: the requests it has put on the wire
    response,          \* per call: what the await produced
    result,            \* per call: the string returned to the host
    log                \* per call: the records it wrote to the logger

vars == <<ALERTHARVEST_URL, now, pc, op, args, frame, sent, response, result, log>>

\* ------------------------------------------------------- python built-ins
SetMin(S) == CHOOSE x \in S : \A y \in S : x <= y
SetMax(S) == CHOOSE x \in S : \A y \in S : y <= x

\* str.strip(): drop leading and trailing whitespace
Strip(s) ==
    LET keep == {i \in 1..Len(s) : s[i] # " "}
    IN  IF keep = {} THEN <<>> ELSE SubSeq(s, SetMin(keep), SetMax(keep))

\* str.split(","): the pieces between the commas, empty pieces included
RECURSIVE Split(_)
Split(s) ==
    LET commas == {i \in 1..Len(s) : s[i] = ","}
    IN  IF commas = {} THEN <<s>>
        ELSE <<SubSeq(s, 1, SetMin(commas) - 1)>>
                 \o Split(SubSeq(s, SetMin(commas) + 1, Len(s)))

Digits == {"0", "1", "2", "3", "4", "5", "6", "7", "8", "9"}
DigitVal(ch) ==
    CASE ch = "0" -> 0 [] ch = "1" -> 1 [] ch = "2" -> 2 [] ch = "3" -> 3
      [] ch = "4" -> 4 [] ch = "5" -> 5 [] ch = "6" -> 6 [] ch = "7" -> 7
      [] ch = "8" -> 8 [] ch = "9" -> 9

RECURSIVE DecimalValue(_)
DecimalValue(d) ==
    IF d = <<>> THEN 0
    ELSE 10 * DecimalValue(SubSeq(d, 1, Len(d) - 1)) + DigitVal(d[Len(d)])

\* int(s) on an already stripped string: an optional sign, then digits that
\* single underscores may separate; anything else raises ValueError.
PyInt_abs(s) ==
    LET signed == s # <<>> /\ s[1] \in {"+", "-"}
        body   == IF signed THEN Tail(s) ELSE s
        wellFormed ==
            /\ body # <<>>
            /\ \A i \in 1..Len(body) : body[i] \in Digits \cup {"_"}
            /\ body[1] # "_" /\ body[Len(body)] # "_"
            /\ \A i \in 1..(Len(body) - 1) : ~(body[i] = "_" /\ body[i + 1] = "_")
        digits == SelectSeq(body, LAMBDA ch : ch # "_")
    IN  IF wellFormed
        THEN [ok |-> TRUE, val |-> DecimalValue(digits)]
        ELSE [ok |-> FALSE, val |-> 0]
PyInt(s) ==
    LET signed == s # <<>> /\ s[1] \in {"+", "-"}
        body   == IF signed THEN Tail(s) ELSE s
        wellFormed ==
            /\ body # <<>>
            /\ \A i \in 1..Len(body) : body[i] \in Digits \cup {"_"}
            /\ body[1] # "_" /\ body[Len(body)] # "_"
            /\ \A i \in 1..(Len(body) - 1) : ~(body[i] = "_" /\ body[i + 1] = "_")
        digits == SelectSeq(body, LAMBDA ch : ch # "_")
        mag    == DecimalValue(digits)
    IN  IF wellFormed
        THEN [ok |-> TRUE, val |-> IF signed /\ s[1] = "-" THEN 0 - mag ELSE mag]
        ELSE [ok |-> FALSE, val |-> 0]

\* dict.get(key, default) on a decoded JSON object
DictGet(d, key, default) == IF key \in DOMAIN d THEN d[key] ELSE default

\* -------------------------------------------------------------- utilities
DigitChar(n) == <<"0", "1", "2", "3", "4", "5", "6", "7", "8", "9">>[(n % 10) + 1]

\* datetime.now(timezone.utc).isoformat(): the text of the clock reading
format_timestamp == <<"T", DigitChar(now \div 10), DigitChar(now), "Z">>

CRITICAL == <<"C", "R", "I", "T", "I", "C", "A", "L">>
MAJOR    == <<"M", "A", "J", "O", "R">>
WARNING  == <<"W", "A", "R", "N", "I", "N", "G">>

validate_severity_stripped(severity) == Strip(severity) \in {CRITICAL, MAJOR, WARNING}
validate_severity(severity) == severity \in {CRITICAL, MAJOR, WARNING}

\* ---------------------------------------------------------- result strings
OkMark  == "[ok]"      \* the check-mark prefix of a success string
ErrMark == "[error]"   \* the cross-mark prefix of a failure string

Success(text, vals) == [mark |-> OkMark, text |-> text, vals |-> vals]
Failure(text, vals) == [mark |-> ErrMark, text |-> text, vals |-> vals]
NoResult == [mark |-> "", text |-> "", vals |-> <<>>]

\* ------------------------------------------------------------ the backend
\* What one await of client.post / client.put can produce: an exception
\* raised by the transport, or a response with a status code and a body that
\* is undecodable, a JSON value that is no object, or a JSON object.
NoObject == <<>>
TransportError(cls, desc) ==
    [kind |-> "exception", cls |-> cls, desc |-> desc, status |-> 0,
     body |-> "none", obj |-> NoObject]
HttpResponse(status, body, obj) ==
    [kind |-> "http", cls |-> "", desc |-> "", status |-> status,
     body |-> body, obj |-> obj]

JsonObjects(statuses, messages) ==
    UNION {[keys -> statuses \cup messages] : keys \in SUBSET {"status", "message"}}

ObjectsOK(objs) ==
    {o \in objs : /\ ("status" \in DOMAIN o => o["status"] \in {"success", "error"})
                  /\ ("message" \in DOMAIN o => o["message"] \in {"not found"})}

AllObjects == ObjectsOK(JsonObjects({"success", "error"}, {"not found"}))

Bodies(objs) ==
    {HttpResponse(200, "undecodable", NoObject), HttpResponse(200, "array", NoObject)}
        \cup {HttpResponse(200, "object", o) : o \in objs}

WithStatus(r, status) == [r EXCEPT !.status = status]

AllResponses ==
    {TransportError("ConnectError", "All connection attempts failed"),
     TransportError("ReadTimeout", "")}
        \cup {WithStatus(r, st) : r \in Bodies(AllObjects), st \in {200, 201, 404}}

SampleResponses ==
    {TransportError("ConnectError", "All connection attempts failed"),
     HttpResponse(200, "object", [k \in {"status"} |-> "success"])}

\* ------------------------------------------------------- the HTTP exchange
Timeout == 10

NoJson == <<>>
Request(method, path, id, json) ==
    [method |-> method, base |-> ALERTHARVEST_URL, path |-> path, id |-> id,
     json |-> json, timeout |-> Timeout]

\* Response.raise_for_status() lets a 2xx status through
IsSuccessStatus_below500(status) == status \in 200..499
IsSuccessStatus(status) == status \in 200..299

Info(text)  == [level |-> "INFO", text |-> text]
Error(text) == [level |-> "ERROR", text |-> text]

\* the exception classes `except Exception` catches
ExceptionClasses ==
    {"HTTPStatusError", "ConnectError", "ReadTimeout", "JSONDecodeError", "AttributeError"}

\* The body of a tool's try block up to result.get("status"): the exception
\* it raises on response r, class "" when it raises none.
Attempt_bodyFirst(r) ==
    IF r.kind = "exception" THEN [cls |-> r.cls, desc |-> r.desc]
    ELSE IF r.body = "undecodable"
        THEN [cls |-> "JSONDecodeError", desc |-> "Expecting value"]
    ELSE IF r.body # "object"
        THEN [cls |-> "AttributeError", desc |-> "'list' object has no attribute 'get'"]
    ELSE IF ~IsSuccessStatus(r.status)
        THEN [cls |-> "HTTPStatusError", desc |-> "status error"]
    ELSE [cls |-> "", desc |-> ""]
Attempt(r) ==
    IF r.kind = "exception" THEN [cls |-> r.cls, desc |-> r.desc]
    ELSE IF ~IsSuccessStatus(r.status)
        THEN [cls |-> "HTTPStatusError", desc |-> "status error"]
    ELSE IF r.body = "undecodable"
        THEN [cls |-> "JSONDecodeError", desc |-> "Expecting value"]
    ELSE IF r.body # "object"
        THEN [cls |-> "AttributeError", desc |-> "'list' object has no attribute 'get'"]
    ELSE [cls |-> "", desc |-> ""]

Outcome_unlogged(next, res, records) == [pc |-> next, result |-> res, log |-> <<>>]
Outcome(next, res, records) == [pc |-> next, result |-> res, log |-> records]

\* The try / except of a tool from the await on: the success string is the
\* tool's, as are the text after the status code and the text it logs.
Translate_narrowCatch(r, success, httpText, logText) ==
    LET e == Attempt(r)
    IN  IF e.cls = ""
        THEN IF DictGet(r.obj, "status", "None") = "success"
             THEN Outcome("done", success, <<>>)
             ELSE Outcome("done",
                          Failure("Error: ", <<DictGet(r.obj, "message", "Unknown error")>>),
                          <<>>)
        ELSE IF e.cls = "HTTPStatusError"
        THEN Outcome("done", Failure(httpText, <<r.status>>), <<Error("HTTP error: ")>>)
        ELSE IF e.cls \in {"ConnectError", "ReadTimeout"}
        THEN Outcome("done", Failure("Error: ", <<e.desc>>), <<Error(logText)>>)
        ELSE Outcome("raised", NoResult, <<>>)
Translate(r, success, httpText, logText) ==
    LET e == Attempt(r)
    IN  IF e.cls = ""
        THEN IF DictGet(r.obj, "status", "None") = "success"
             THEN Outcome("done", success, <<>>)
             ELSE Outcome("done",
                          Failure("Error: ", <<DictGet(r.obj, "message", "Unknown error")>>),
                          <<>>)
        ELSE IF e.cls = "HTTPStatusError"
        THEN Outcome("done", Failure(httpText, <<r.status>>), <<Error("HTTP error: ")>>)
        ELSE IF e.cls \in ExceptionClasses
        THEN Outcome("done", Failure("Error: ", <<e.desc>>), <<Error(logText)>>)
        ELSE Outcome("raised", NoResult, <<>>)

\* ------------------------------------------------------ coroutine plumbing
NoFrame == [alert_timestamp |-> <<>>, alert_id_int |-> <<>>, id_list |-> <<>>]

\* calls are numbered in the order the host makes them
Invocable(c) == pc[c] = "idle" /\ (IF c = 1 THEN TRUE ELSE pc[c - 1] # "idle")

Enter(c, tool, arguments, text) ==
    /\ Invocable(c)
    /\ op' = [op EXCEPT ![c] = tool]
    /\ args' = [args EXCEPT ![c] = arguments]
    /\ log' = [log EXCEPT ![c] = <<Info(text)>>]
    /\ UNCHANGED <<ALERTHARVEST_URL, now, response>>

\* return before any request
Return(c, res) ==
    /\ pc' = [pc EXCEPT ![c] = "done"]
    /\ result' = [result EXCEPT ![c] = res]
    /\ UNCHANGED <<frame, sent>>

\* send the request and suspend in the await
Await(c, f, req) ==
    /\ pc' = [pc EXCEPT ![c] = "waiting"]
    /\ frame' = [frame EXCEPT ![c] = f]
    /\ sent' = [sent EXCEPT ![c] = Append(@, req)]
    /\ UNCHANGED result

\* the list comprehension of the bulk tools
ParseIdList(alert_ids) ==
    LET tokens == SelectSeq(Split(alert_ids), LAMBDA t : Strip(t) # <<>>)
    IN  [ok |-> \A i \in 1..Len(tokens) : PyInt(Strip(tokens[i])).ok,
         id_list |-> [i \in 1..Len(tokens) |-> PyInt(Strip(tokens[i])).val]]

\* ---------------------------------------------------------------- MCP tools
\* Each tool is an action up to its await (validation, the request) and an
\* operator for what it does with the response once resumed.

alert_data(a, ts) ==
    [location |-> Strip(a[1]), severity |-> Strip(a[2]), message |-> Strip(a[3]),
     source |-> Strip(a[4]), timestamp |-> ts]

create_alert(c, location, severity, message, source, timestamp) ==
    /\ Enter(c, "create_alert", <<location, severity, message, source, timestamp>>,
             "Creating alert: ")
    /\ IF Strip(location) = <<>>
       THEN Return(c, Failure("Error: Location is required", <<>>))
       ELSE IF Strip(severity) = <<>>
       THEN Return(c, Failure("Error: Severity is required", <<>>))
       ELSE IF Strip(message) = <<>>
       THEN Return(c, Failure("Error: Message is required", <<>>))
       ELSE IF Strip(source) = <<>>
       THEN Return(c, Failure("Error: Source is required", <<>>))
       ELSE IF ~validate_severity(severity)
       THEN Return(c, Failure("Error: Invalid severity. Must be one of: critical, major, warning",
                              <<>>))
       ELSE LET alert_timestamp ==
                    IF Strip(timestamp) # <<>> THEN Strip(timestamp) ELSE format_timestamp
            IN  Await(c, [NoFrame EXCEPT !.alert_timestamp = alert_timestamp],
                      Request("POST", "/api/create_alert/", <<>>,
                              <<alert_data(<<location, severity, message, source, timestamp>>,
                                           alert_timestamp)>>))

create_alert_resume_clockAgain(a, f, r) ==
    Translate(r, Success("Alert Created Successfully",
                         <<a[1], a[2], a[3], a[4],
                           IF Strip(a[5]) # <<>> THEN Strip(a[5]) ELSE format_timestamp>>),
              "API Error: HTTP", "Error creating alert: ")
create_alert_resume(a, f, r) ==
    Translate(r, Success("Alert Created Successfully",
                         <<a[1], a[2], a[3], a[4], f.alert_timestamp>>),
              "API Error: HTTP", "Error creating alert: ")

acknowledge_alert(c, alert_id) ==
    /\ Enter(c, "acknowledge_alert", <<alert_id>>, "Acknowledging alert: ")
    /\ IF Strip(alert_id) = <<>>
       THEN Return(c, Failure("Error: Alert ID is required", <<>>))
       ELSE IF ~PyInt(Strip(alert_id)).ok
       THEN Return(c, Failure("Error: Alert ID must be a number, got: ", <<alert_id>>))
       ELSE LET alert_id_int == PyInt(Strip(alert_id)).val
            IN  Await(c, [NoFrame EXCEPT !.alert_id_int = <<alert_id_int>>],
                      Request("PUT", "/api/acknowledge_alert/", <<alert_id_int>>, NoJson))

acknowledge_alert_resume(f, r) ==
    Translate(r, Success("Alert # acknowledged successfully", f.alert_id_int),
              "API Error: HTTP - Alert may not exist", "Error acknowledging alert: ")

acknowledge_alerts_bulk_noEmptyCheck(c, alert_ids) ==
    /\ Enter(c, "acknowledge_alerts_bulk", <<alert_ids>>, "Acknowledging alerts in bulk: ")
    /\ IF Strip(alert_ids) = <<>>
       THEN Return(c, Failure("Error: Alert IDs are required (comma-separated)", <<>>))
       ELSE LET parsed == ParseIdList(alert_ids)
            IN  IF ~parsed.ok
                THEN Return(c, Failure("Error: All alert IDs must be numbers", <<>>))
                ELSE Await(c, [NoFrame EXCEPT !.id_list = parsed.id_list],
                           Request("PUT", "/api/acknowledge_alerts_bulk/", <<>>,
                                   <<[alert_ids |-> parsed.id_list]>>))
acknowledge_alerts_bulk(c, alert_ids) ==
    /\ Enter(c, "acknowledge_alerts_bulk", <<alert_ids>>, "Acknowledging alerts in bulk: ")
    /\ IF Strip(alert_ids) = <<>>
       THEN Return(c, Failure("Error: Alert IDs are required (comma-separated)", <<>>))
       ELSE LET parsed == ParseIdList(alert_ids)
            IN  IF ~parsed.ok
                THEN Return(c, Failure("Error: All alert IDs must be numbers", <<>>))
                ELSE IF parsed.id_list = <<>>
                THEN Return(c, Failure("Error: No valid alert IDs provided", <<>>))
                ELSE Await(c, [NoFrame EXCEPT !.id_list = parsed.id_list],
                           Request("PUT", "/api/acknowledge_alerts_bulk/", <<>>,
                                   <<[alert_ids |-> parsed.id_list]>>))

acknowledge_alerts_bulk_resume(f, r) ==
    Translate(r, Success("alerts acknowledged successfully: ", <<Len(f.id_list), f.id_list>>),
              "API Error: HTTP", "Error acknowledging alerts in bulk: ")

unacknowledge_alert(c, alert_id) ==
    /\ Enter(c, "unacknowledge_alert", <<alert_id>>, "Unacknowledging alert: ")
    /\ IF Strip(alert_id) = <<>>
       THEN Return(c, Failure("Error: Alert ID is required", <<>>))
       ELSE IF ~PyInt(Strip(alert_id)).ok
       THEN Return(c, Failure("Error: Alert ID must be a number, got: ", <<alert_id>>))
       ELSE LET alert_id_int == PyInt(Strip(alert_id)).val
            IN  Await(c, [NoFrame EXCEPT !.alert_id_int = <<alert_id_int>>],
                      Request("PUT", "/api/unacknowledge_alert/", <<alert_id_int>>, NoJson))

unacknowledge_alert_resume(f, r) ==
    Translate(r, Success("Alert # unacknowledged successfully", f.alert_id_int),
              "API Error: HTTP - Alert may not exist", "Error unacknowledging alert: ")

close_alert(c, alert_id) ==
    /\ Enter(c, "close_alert", <<alert_id>>, "Closing alert: ")
    /\ IF Strip(alert_id) = <<>>
       THEN Return(c, Failure("Error: Alert ID is required", <<>>))
       ELSE IF ~PyInt(Strip(alert_id)).ok
       THEN Return(c, Failure("Error: Alert ID must be a number, got: ", <<alert_id>>))
       ELSE LET alert_id_int == PyInt(Strip(alert_id)).val
            IN  Await(c, [NoFrame EXCEPT !.alert_id_int = <<alert_id_int>>],
                      Request("PUT", "/api/close_alert/", <<alert_id_int>>, NoJson))

close_alert_resume(f, r) ==
    Translate(r, Success("Alert # closed successfully", f.alert_id_int),
              "API Error: HTTP - Alert may not exist", "Error closing alert: ")

close_alerts_bulk(c, alert_ids) ==
    /\ Enter(c, "close_alerts_bulk", <<alert_ids>>, "Closing alerts in bulk: ")
    /\ IF Strip(alert_ids) = <<>>
       THEN Return(c, Failure("Error: Alert IDs are required (comma-separated)", <<>>))
       ELSE LET parsed == ParseIdList(alert_ids)
            IN  IF ~parsed.ok
                THEN Return(c, Failure("Error: All alert IDs must be numbers", <<>>))
                ELSE IF parsed.id_list = <<>>
                THEN Return(c, Failure("Error: No valid alert IDs provided", <<>>))
                ELSE Await(c, [NoFrame EXCEPT !.id_list = parsed.id_list],
                           Request("PUT", "/api/close_alerts_bulk/", <<>>,
                                   <<[alert_ids |-> parsed.id_list]>>))

close_alerts_bulk_resume(f, r) ==
    Translate(r, Success("alerts closed successfully: ", <<Len(f.id_list), f.id_list>>),
              "API Error: HTTP", "Error closing alerts in bulk: ")

close_expired_alerts(c) ==
    /\ Enter(c, "close_expired_alerts", <<>>, "Closing expired alerts")
    /\ Await(c, NoFrame, Request("PUT", "/api/close_expired_alerts/", <<>>, NoJson))

close_expired_alerts_resume_counted(r) ==
    Translate(r, Success("", <<DictGet(r.obj, "message", "Expired alerts closed successfully"),
                               Cardinality({d \in Calls : pc[d] = "done"})>>),
              "API Error: HTTP", "Error closing expired alerts: ")
close_expired_alerts_resume(r) ==
    Translate(r, Success("", <<DictGet(r.obj, "message", "Expired alerts closed successfully")>>),
              "API Error: HTTP", "Error closing expired alerts: ")

\* the coroutine of call c resumed with r
Resume(c, r) ==
    CASE op[c] = "create_alert"            -> create_alert_resume(args[c], frame[c], r)
      [] op[c] = "acknowledge_alert"       -> acknowledge_alert_resume(frame[c], r)
      [] op[c] = "acknowledge_alerts_bulk" -> acknowledge_alerts_bulk_resume(frame[c], r)
      [] op[c] = "unacknowledge_alert"     -> unacknowledge_alert_resume(frame[c], r)
      [] op[c] = "close_alert"             -> close_alert_resume(frame[c], r)
      [] op[c] = "close_alerts_bulk"       -> close_alerts_bulk_resume(frame[c], r)
      [] op[c] = "close_expired_alerts"    -> close_expired_alerts_resume(r)

\* The await of call c completes with r (the backend answered, or the
\* transport gave up) and the tool runs to its return.
Respond_retry(c, r) ==
    /\ pc[c] = "waiting"
    /\ LET o == Resume(c, r)
       IN  /\ pc' = [pc EXCEPT ![c] = o.pc]
           /\ result' = [result EXCEPT ![c] = o.result]
           /\ log' = [log EXCEPT ![c] = @ \o o.log]
           /\ sent' = [sent EXCEPT ![c] =
                          IF o.result.mark = ErrMark THEN Append(@, @[1]) ELSE @]
    /\ response' = [response EXCEPT ![c] = <<r>>]
    /\ UNCHANGED <<ALERTHARVEST_URL, now, op, args, frame>>
Respond(c, r) ==
    /\ pc[c] = "waiting"
    /\ LET o == Resume(c, r)
       IN  /\ pc' = [pc EXCEPT ![c] = o.pc]
           /\ result' = [result EXCEPT ![c] = o.result]
           /\ log' = [log EXCEPT ![c] = @ \o o.log]
    /\ response' = [response EXCEPT ![c] = <<r>>]
    /\ UNCHANGED <<ALERTHARVEST_URL, now, op, args, frame, sent>>

\* the wall clock advances
Tick ==
    /\ now < MaxClock
    /\ now' = now + 1
    /\ UNCHANGED <<ALERTHARVEST_URL, pc, op, args, frame, sent, response, result, log>>

\* ---------------------------------------------------------- specifications
DefaultUrl == "http://127.0.0.1:8000"
EnvUrl     == "http://alertharvest.example:9000"

\* os.environ.get("ALERTHARVEST_URL", default), read once at import
Init ==
    /\ ALERTHARVEST_URL \in {DefaultUrl, EnvUrl}
    /\ now = 0
    /\ pc = [c \in Calls |-> "idle"]
    /\ op = [c \in Calls |-> ""]
    /\ args = [c \in Calls |-> <<>>]
    /\ frame = [c \in Calls |-> NoFrame]
    /\ sent = [c \in Calls |-> <<>>]
    /\ response = [c \in Calls |-> <<>>]
    /\ result = [c \in Calls |-> NoResult]
    /\ log = [c \in Calls |-> <<>>]

Alphabet == {"0", "1", "-", " ", ",", "x"}
Texts(n) == UNION {[1..k -> Alphabet] : k \in 0..n}
ExampleIds == <<"1", ",", " ", "2", ",", " ", ",", " ", "3">>
IdTexts == Texts(MaxLen) \cup {ExampleIds, <<"+", "7">>, <<"1", "_", "0">>}

FieldTexts == {<<>>, <<" ">>, <<" ", "a">>}
SeverityTexts ==
    {<<>>, <<" ">>, CRITICAL, MAJOR, WARNING, <<" ">> \o CRITICAL,
     <<"m", "a", "j", "o", "r">>, <<"u", "r", "g", "e", "n", "t">>}
TimestampTexts == {<<>>, <<" ">>, <<"T", "9">>, <<" ", "T", "9", " ">>}

SampleIdTexts == {<<"7">>, <<"x">>}
SampleIdLists == {<<"1", ",", "2">>, <<",">>}
SampleSeverities == {CRITICAL, <<"u">>}
SampleTimestamps == {<<>>, <<"T", "9">>}

\* the arguments the host can pass to call c: none once c has been made
Offered(c, texts) == IF Invocable(c) THEN texts ELSE {}

\* Concurrent host: up to MaxCalls invocations in flight at once, arguments
\* and backend answers from the sample sets.
Next ==
    \/ \E c \in Calls :
        \/ \E sv \in Offered(c, SampleSeverities), ts \in SampleTimestamps :
              create_alert(c, <<"a">>, sv, <<"a">>, <<"a">>, ts)
        \/ \E a \in Offered(c, SampleIdTexts) : acknowledge_alert(c, a)
        \/ \E a \in Offered(c, SampleIdLists) : acknowledge_alerts_bulk(c, a)
        \/ \E a \in Offered(c, SampleIdTexts) : unacknowledge_alert(c, a)
        \/ \E a \in Offered(c, SampleIdTexts) : close_alert(c, a)
        \/ \E a \in Offered(c, SampleIdLists) : close_alerts_bulk(c, a)
        \/ close_expired_alerts(c)
        \/ \E r \in SampleResponses : Respond(c, r)
    \/ Tick

Spec == Init /\ [][Next]_vars

\* One invocation at a time, arguments over every text up to MaxLen and
\* every backend answer.
NextArgs ==
    \/ \E lo \in Offered(1, FieldTexts), sv \in SeverityTexts, me \in FieldTexts,
          so \in FieldTexts, ts \in TimestampTexts :
          create_alert(1, lo, sv, me, so, ts)
    \/ \E a \in Offered(1, IdTexts) : acknowledge_alert(1, a)
    \/ \E a \in Offered(1, IdTexts) : acknowledge_alerts_bulk(1, a)
    \/ \E a \in Offered(1, IdTexts) : unacknowledge_alert(1, a)
    \/ \E a \in Offered(1, IdTexts) : close_alert(1, a)
    \/ \E a \in Offered(1, IdTexts) : close_alerts_bulk(1, a)
    \/ close_expired_alerts(1)
    \/ \E r \in AllResponses : Respond(1, r)
    \/ Tick

SpecArgs == Init /\ [][NextArgs]_vars

\* The await always completes: the request carries a timeout, so the
\* transport answers or raises within it.
SpecArgsFair == SpecArgs /\ WF_vars(\E r \in AllResponses : Respond(1, r))

\* ------------------------------------------------- vocabulary of the claims
\* Stated on the argument texts themselves, not through the tools' parsing.
SingleIdTools == {"acknowledge_alert", "unacknowledge_alert", "close_alert"}
BulkTools == {"acknowledge_alerts_bulk", "close_alerts_bulk"}

Invoked(c) == pc[c] # "idle"
Done(c) == pc[c] = "done"

IsBlank(s) == \A i \in 1..Len(s) : s[i] = " "

\* s is, between optional blanks, an optional sign and a run of digits
IsIntegerText(s) ==
    \E i, j \in 1..Len(s) :
        /\ i <= j
        /\ \A k \in 1..(i - 1) : s[k] = " "
        /\ \A k \in (j + 1)..Len(s) : s[k] = " "
        /\ LET d == IF s[i] \in {"+", "-"} THEN i + 1 ELSE i
           IN  /\ d <= j
               /\ s[d] \in Digits /\ s[j] \in Digits
               /\ \A k \in d..j : s[k] \in Digits \cup {"_"}
               /\ \A k \in d..(j - 1) : ~(s[k] = "_" /\ s[k + 1] = "_")

\* the value of an integer text, read left to right
RECURSIVE ReadInt(_, _, _, _)
ReadInt(s, i, sign, acc) ==
    IF i > Len(s) THEN sign * acc
    ELSE IF s[i] = "-" THEN ReadInt(s, i + 1, 0 - 1, acc)
    ELSE IF s[i] \in Digits THEN ReadInt(s, i + 1, sign, 10 * acc + DigitVal(s[i]))
    ELSE ReadInt(s, i + 1, sign, acc)
IntegerOf(s) == ReadInt(s, 1, 1, 0)

\* the comma-separated tokens of s, by the places of its commas
Boundaries(s) == {0, Len(s) + 1} \cup {i \in 1..Len(s) : s[i] = ","}
NthBoundary(s, n) ==
    CHOOSE b \in Boundaries(s) : Cardinality({x \in Boundaries(s) : x < b}) = n - 1
Tokens(s) ==
    [n \in 1..(Cardinality(Boundaries(s)) - 1) |->
        SubSeq(s, NthBoundary(s, n) + 1, NthBoundary(s, n + 1) - 1)]
NonBlankTokens(s) == SelectSeq(Tokens(s), LAMBDA t : ~IsBlank(t))
ExpectedIds(s) ==
    [n \in 1..Len(NonBlankTokens(s)) |-> IntegerOf(NonBlankTokens(s)[n])]

\* the text without its leading and trailing blanks
RECURSIVE Trimmed(_)
Trimmed(s) ==
    IF s = <<>> THEN s
    ELSE IF s[1] = " " THEN Trimmed(Tail(s))
    ELSE IF s[Len(s)] = " " THEN Trimmed(SubSeq(s, 1, Len(s) - 1))
    ELSE s

\* what the validation rules reject
LocallyRejected(tool, a) ==
    CASE tool = "create_alert" ->
            \/ \E i \in 1..4 : IsBlank(a[i])
            \/ a[2] \notin {CRITICAL, MAJOR, WARNING}
      [] tool \in SingleIdTools -> IsBlank(a[1]) \/ ~IsIntegerText(a[1])
      [] tool \in BulkTools ->
            \/ IsBlank(a[1])
            \/ NonBlankTokens(a[1]) = <<>>
            \/ \E n \in 1..Len(NonBlankTokens(a[1])) : ~IsIntegerText(NonBlankTokens(a[1])[n])
      [] OTHER -> FALSE

Answer(c) == response[c][1]
Answered(c) == response[c] # <<>>
HttpOk(c) == Answered(c) /\ Answer(c).kind = "http" /\ Answer(c).status \in 200..299
HttpNotOk(c) == Answered(c) /\ Answer(c).kind = "http" /\ Answer(c).status \notin 200..299
BodySaysSuccess(c) ==
    /\ Answer(c).body = "object"
    /\ "status" \in DOMAIN Answer(c).obj
    /\ Answer(c).obj["status"] = "success"

\* ------------------------------------------------------------------ claims

\* C1: an invocation whose arguments local validation rejects (a required
\* field blank, a create severity outside CRITICAL / MAJOR / WARNING, an
\* alert_id that is no integer, an alert_ids token that is no integer, or no
\* token at all) returns a failure string and issues no request.
C1_RejectedSendsNothing ==
    \A c \in Calls :
        (Invoked(c) /\ LocallyRejected(op[c], args[c])) =>
            /\ Done(c)
            /\ result[c].mark = ErrMark
            /\ sent[c] = <<>>
            /\ ~Answered(c)

C1_Witness ==
    \E c \in Calls :
        /\ Done(c) /\ op[c] = "acknowledge_alerts_bulk"
        /\ args[c] = << <<"1", ",", "x">> >>
        /\ result[c].mark = ErrMark /\ sent[c] = <<>>

\* C3: a success string is returned exactly when the request was issued, the
\* HTTP status was a success status and the decoded body's status field is
\* "success"; a success status with any other status field gives a failure
\* string carrying the body's message, or "Unknown error" without one.
C3_SuccessIffBackendSuccess ==
    \A c \in Calls :
        Done(c) =>
            /\ result[c].mark \in {OkMark, ErrMark}
            /\ (result[c].mark = OkMark) <=>
                   (sent[c] # <<>> /\ HttpOk(c) /\ BodySaysSuccess(c))
            /\ (HttpOk(c) /\ Answer(c).body = "object" /\ ~BodySaysSuccess(c)) =>
                   /\ result[c].mark = ErrMark
                   /\ result[c].text = "Error: "
                   /\ result[c].vals =
                          << IF "message" \in DOMAIN Answer(c).obj
                             THEN Answer(c).obj["message"] ELSE "Unknown error" >>

C3_Witness ==
    \E c \in Calls :
        /\ Done(c) /\ HttpOk(c) /\ Answer(c).body = "object"
        /\ DOMAIN Answer(c).obj = {"status"} /\ Answer(c).obj["status"] = "error"
        /\ result[c] = Failure("Error: ", <<"Unknown error">>)

\* C6: a non-success HTTP status gives a failure string that carries the
\* status code and nothing of the response body; any other transport
\* failure (an exception of the transport, an undecodable body) gives a
\* failure string that carries the error's description and no status code.
C6_StatusFailureVsTransportFailure ==
    \A c \in Calls :
        Done(c) /\ Answered(c) =>
            /\ HttpNotOk(c) =>
                   /\ result[c].mark = ErrMark
                   /\ result[c].text \in
                          {"API Error: HTTP", "API Error: HTTP - Alert may not exist"}
                   /\ result[c].vals = <<Answer(c).status>>
            /\ Answer(c).kind = "exception" =>
                   result[c] = Failure("Error: ", <<Answer(c).desc>>)
            /\ (HttpOk(c) /\ Answer(c).body = "undecodable") =>
                   result[c] = Failure("Error: ", <<"Expecting value">>)

C6_Witness ==
    \E c \in Calls :
        /\ Done(c) /\ HttpNotOk(c) /\ Answer(c).status = 404
        /\ Answer(c).body = "undecodable"
        /\ op[c] = "close_alert"
        /\ result[c] = Failure("API Error: HTTP - Alert may not exist", <<404>>)

\* C8: when every non-blank comma-separated token of alert_ids is an integer
\* text and there is at least one, the one request of a bulk tool carries
\* exactly the integer values of those tokens, in order, blank tokens dropped.
C8_BulkIdsAreTheTokens ==
    \A c \in Calls :
        (Invoked(c) /\ op[c] \in BulkTools /\ ~LocallyRejected(op[c], args[c])) =>
            /\ Len(sent[c]) = 1
            /\ sent[c][1].json = <<[alert_ids |-> ExpectedIds(args[c][1])]>>

C8_Witness ==
    \E c \in Calls :
        /\ op[c] = "acknowledge_alerts_bulk" /\ args[c] = <<ExampleIds>>
        /\ Len(sent[c]) = 1
        /\ sent[c][1].json = <<[alert_ids |-> <<1, 2, 3>>]>>

\* C10: a validated create fixes one timestamp before the request (the
\* supplied one trimmed, or one generated at call time when it is blank);
\* that value is the request body's timestamp and the one the success string
\* echoes.
GeneratedSoFar ==
    {<<"T", DigitChar(n \div 10), DigitChar(n), "Z">> : n \in 0..now}

C10_OneTimestamp ==
    \A c \in Calls :
        (Invoked(c) /\ op[c] = "create_alert" /\ ~LocallyRejected(op[c], args[c])) =>
            /\ Len(sent[c]) = 1
            /\ IF IsBlank(args[c][5])
               THEN sent[c][1].json[1].timestamp \in GeneratedSoFar
               ELSE sent[c][1].json[1].timestamp = Trimmed(args[c][5])
            /\ (Done(c) /\ result[c].mark = OkMark) =>
                   result[c].vals[5] = sent[c][1].json[1].timestamp

C10_Witness ==
    \E c \in Calls :
        /\ Done(c) /\ op[c] = "create_alert" /\ result[c].mark = OkMark
        /\ IsBlank(args[c][5])
        /\ result[c].vals[5] = sent[c][1].json[1].timestamp
        /\ result[c].vals[5] # format_timestamp

\* C2: every invocation ends with a string returned to the host; no
\* exception leaves a tool, whatever the arguments and whatever the backend
\* does (transport exception, error status, undecodable or oddly shaped body).
C2_AlwaysReturnsString ==
    /\ [](\A c \in Calls :
            /\ pc[c] # "raised"
            /\ Answered(c) => Done(c)
            /\ Done(c) => /\ result[c].mark \in {OkMark, ErrMark}
                          /\ result[c].text \in STRING)
    /\ \A c \in Calls : Invoked(c) ~> Done(c)

C2_Witness ==
    \E c \in Calls :
        /\ Done(c) /\ HttpOk(c) /\ Answer(c).body = "array"
        /\ result[c] = Failure("Error: ", <<"'list' object has no attribute 'get'">>)

\* C4: an invocation that passes validation issues exactly one request,
\* whatever its outcome and whatever calls came before; N validated
\* invocations have sent N requests.
RECURSIVE RequestsUpTo(_)
RequestsUpTo(n) == IF n = 0 THEN 0 ELSE RequestsUpTo(n - 1) + Len(sent[n])
Validated == {c \in Calls : Invoked(c) /\ ~LocallyRejected(op[c], args[c])}

C4_OneRequestPerValidatedCall ==
    /\ \A c \in Calls : Len(sent[c]) = IF c \in Validated THEN 1 ELSE 0
    /\ RequestsUpTo(MaxCalls) = Cardinality(Validated)

C4_Witness ==
    \E c, d \in Calls :
        /\ c # d /\ Done(c) /\ Done(d)
        /\ op[c] = "acknowledge_alert" /\ op[d] = op[c] /\ args[d] = args[c]
        /\ Answered(c) /\ Answer(c).kind = "exception" /\ result[c].mark = ErrMark
        /\ result[d].mark = OkMark
        /\ Len(sent[c]) = 1 /\ Len(sent[d]) = 1 /\ sent[c] = sent[d]

\* C5 as stated: every outcome (validation failure, backend-reported
\* failure, HTTP-status failure, other transport failure, success) is written
\* to the log before the string is returned.
OutcomeLogged(c) == \E i \in 2..Len(log[c]) : log[c][i].level = "ERROR"

C5_Original ==
    \A c \in Calls : Done(c) => OutcomeLogged(c)

\* C5 amended: every invocation logs its call on entry; its outcome is
\* logged (one ERROR record, before the return) exactly when it is an
\* HTTP-status failure or another exception of the request; validation
\* failures, backend-reported failures and successes log no outcome.
RequestFailed(c) ==
    /\ Answered(c)
    /\ \/ Answer(c).kind = "exception"
       \/ HttpNotOk(c)
       \/ Answer(c).body # "object"

C5_EntryLoggedErrorsLogged ==
    \A c \in Calls :
        /\ Invoked(c) => (Len(log[c]) >= 1 /\ log[c][1].level = "INFO")
        /\ Done(c) =>
              IF RequestFailed(c)
              THEN Len(log[c]) = 2 /\ log[c][2].level = "ERROR"
              ELSE Len(log[c]) = 1

C5_Witness ==
    \E c \in Calls :
        /\ Done(c) /\ HttpNotOk(c) /\ op[c] = "acknowledge_alerts_bulk"
        /\ log[c] = <<Info("Acknowledging alerts in bulk: "), Error("HTTP error: ")>>

\* C7 as stated: every alert identifier sent, in a path or in an alert_ids
\* body, is a positive integer, and a bulk alert_ids list is never empty.
SentIds(c) ==
    UNION {{q.id[i] : i \in 1..Len(q.id)} : q \in {sent[c][k] : k \in 1..Len(sent[c])}}
        \cup (IF op[c] \in BulkTools
              THEN UNION {{q.json[1].alert_ids[i] : i \in 1..Len(q.json[1].alert_ids)} :
                             q \in {sent[c][k] : k \in 1..Len(sent[c])}}
              ELSE {})

BulkListsNonEmpty(c) ==
    op[c] \in BulkTools =>
        \A k \in 1..Len(sent[c]) : Len(sent[c][k].json[1].alert_ids) >= 1

C7_Original ==
    \A c \in Calls :
        /\ \A id \in SentIds(c) : id \in Int /\ id > 0
        /\ BulkListsNonEmpty(c)

\* C7 amended: every alert identifier sent is an integer (zero and negative
\* values included), a path tool sends exactly one, and a bulk alert_ids list
\* is never empty.
C7_IdsIntegersBulkNonEmpty ==
    \A c \in Calls :
        /\ \A id \in SentIds(c) : id \in Int
        /\ BulkListsNonEmpty(c)
        /\ op[c] \in SingleIdTools => \A k \in 1..Len(sent[c]) : Len(sent[c][k].id) = 1

C7_Witness ==
    \E c \in Calls :
        /\ op[c] = "close_alerts_bulk" /\ Len(sent[c]) = 1
        /\ sent[c][1].json[1].alert_ids = <<0 - 1>>

\* C9 as stated: the base URL never changes, and a call's request and
\* returned string are determined by its own arguments and the response to
\* its own request alone.
SameCall(c, d) == Invoked(c) /\ Invoked(d) /\ op[c] = op[d] /\ args[c] = args[d]

DeterminedByArgsAndResponse ==
    \A c, d \in Calls :
        SameCall(c, d) =>
            /\ sent[c] = sent[d]
            /\ (Done(c) /\ Done(d) /\ response[c] = response[d]) => result[c] = result[d]

C9_Original ==
    [][ALERTHARVEST_URL' = ALERTHARVEST_URL /\ DeterminedByArgsAndResponse']_vars

\* C9 amended: the base URL never changes, a step of one call changes
\* nothing of another call, and a call's request and returned string are
\* determined by its own arguments, the clock reading its create took when
\* no timestamp was supplied, and the response to its own request.
ClockReading(c) ==
    IF op[c] = "create_alert" /\ IsBlank(args[c][5]) THEN frame[c].alert_timestamp ELSE <<>>

DeterminedByArgsClockAndResponse ==
    \A c, d \in Calls :
        (SameCall(c, d) /\ ClockReading(c) = ClockReading(d)) =>
            /\ sent[c] = sent[d]
            /\ (Done(c) /\ Done(d) /\ response[c] = response[d]) => result[c] = result[d]

OfCall(c) == <<pc[c], op[c], args[c], frame[c], sent[c], response[c], result[c], log[c]>>

C9_CallsIndependent ==
    [][/\ ALERTHARVEST_URL' = ALERTHARVEST_URL
       /\ DeterminedByArgsClockAndResponse'
       /\ \A c, d \in Calls : (c # d /\ pc'[c] # pc[c]) => OfCall(d)' = OfCall(d)]_vars

C9_Witness ==
    \E c, d \in Calls :
        /\ c # d /\ SameCall(c, d) /\ op[c] = "acknowledge_alert"
        /\ Done(c) /\ Done(d) /\ result[c].mark = OkMark
        /\ response[c] # response[d] /\ result[c] # result[d]
        /\ sent[c] = sent[d]
====
